---- MODULE Spec2Model ----
(***************************************************************************)
(* Model of wave_sim.c: the explicit leapfrog integration of the 2D wave   *)
(* equation on an Nx x Ny grid with radiating edges, averaged corners and  *)
(* one point source, over three heap buffers whose pointers are rotated    *)
(* after every time step.                                                  *)
(*                                                                         *)
(* Field values.  The program computes in double.  With dx = dy (lines     *)
(* 40-41) the derived coefficients are Ox*Ox = Oy*Oy = 1/2 and             *)
(* (c*dt - dx)/(c*dt + dx) = (1 - sqrt 2)/(1 + sqrt 2) = -3 + 2*sqrt 2,    *)
(* so every field value lies in the ring Z[sqrt 2][1/2].  A value is the   *)
(* triple <<a, b, k>> standing for (a + b*sqrt 2) / 2^k, kept normalised   *)
(* (k = 0, or a or b odd), so that equality of values is equality of       *)
(* triples.  Rounding of double arithmetic is not modelled.  The two        *)
(* transcendental factors of the source statement are tabulated per step,  *)
(* rounded to the nearest 1/16, at the program's constants.                *)
(*                                                                         *)
(* Configuration.  The macros Nx, Ny, xs1, ys1 and the amplitude factor    *)
(* are fixed when main starts; the model starts main on small grids with   *)
(* every in-range source node and with amplitude 0 or 1.                   *)
(***************************************************************************)
EXTENDS Integers, Sequences, FiniteSets, TLC

\* ------------------------------------------------------------------ bounds
\* Largest number of nodes per axis explored (the program has 84).
MaxNodes == 5
\* Number of time steps (the program runs 150).
n_stop == 6

\* --------------------------------------------------- exact value arithmetic
RECURSIVE Pow2(_)
Pow2(k) == IF k = 0 THEN 1 ELSE 2 * Pow2(k - 1)

RECURSIVE Norm(_)
Norm(v) ==
    IF v[3] > 0 /\ v[1] % 2 = 0 /\ v[2] % 2 = 0
    THEN Norm(<<v[1] \div 2, v[2] \div 2, v[3] - 1>>)
    ELSE v

Zero == <<0, 0, 0>>
One == <<1, 0, 0>>

\* x + y
Add(x, y) ==
    LET k == IF x[3] > y[3] THEN x[3] ELSE y[3]
        fx == Pow2(k - x[3])
        fy == Pow2(k - y[3])
    IN  Norm(<<x[1] * fx + y[1] * fy, x[2] * fx + y[2] * fy, k>>)

\* m * x for an integer literal m (the 1, 2 and -1 of the source)
Scale(m, x) == Norm(<<m * x[1], m * x[2], x[3]>>)

\* x - y
Sub(x, y) == Add(x, Scale(-1, y))

\* 0.5 * x
Half(x) == Norm(<<x[1], x[2], x[3] + 1>>)

\* x * y
Mul(x, y) ==
    Norm(<<x[1] * y[1] + 2 * x[2] * y[2], x[1] * y[2] + x[2] * y[1], x[3] + y[3]>>)

\* -------------------------------------------------- derived coefficients
\* Ox * Ox = (c*dt/dx)^2 = dy^2 / (dx^2 + dy^2) = 1/2 for dx = dy
OxOx == <<1, 0, 1>>
\* Oy * Oy = (c*dt/dy)^2 = dx^2 / (dx^2 + dy^2) = 1/2 for dx = dy
OyOy == <<1, 0, 1>>
\* (c*dt - dx) / (c*dt + dx) = -3 + 2*sqrt 2
Rx == <<-3, 2, 0>>
\* (c*dt - dy) / (c*dt + dy) = -3 + 2*sqrt 2
Ry == <<-3, 2, 0>>

\* ------------------------------------------------------------ the forcing
\* exp(-pow((n*dt - T0)/(w/2), 2.0)) at the program's constants, in 1/16
GaussTable == <<13, 13, 14, 14, 14, 15, 15, 15, 15, 16>>
\* sin(((2*M_PI*c)/l) * (n*dt)) at the program's constants, in 1/16;
\* n*dt = 0 at n = 0, and sin(0) = 0 exactly
SineTable == <<0, 8, 14, 16, 14, 7, -1, -9, -14, -16>>

Gauss(nn) == Norm(<<GaussTable[nn + 1], 0, 4>>)
Sine(nn) == Norm(<<SineTable[nn + 1], 0, 4>>)

\* ------------------------------------------------------------------ state
VARIABLES
    Nx, Ny,          \* nodes per axis (lines 42-43)
    xs1, ys1,        \* source location (lines 60-61)
    amplitude,       \* the factor 1 in front of the pulse (line 226)
    heap,            \* the three allocated 2D arrays, by allocation number
    alive,           \* allocations not yet freed
    Un_p1, Un0, Un_m1,   \* the three pointers of main (lines 202-204)
    n,               \* the loop counter of the time marching (line 211)
    pc,              \* position of main
    wcount,          \* observation: stores into each node of *Un_p1 in this step
    trace,           \* observation: passes completed in this step, in order
    frames,          \* observation: number of printWave calls so far
    shown,           \* observation: the field handed to the last printWave call
    stale,           \* observation: what *Un_p1 held when this step began
    rotations        \* observation: number of pointer rotations so far

config == <<Nx, Ny, xs1, ys1, amplitude>>
observed == <<wcount, trace, frames, shown, stale, rotations>>
vars == <<Nx, Ny, xs1, ys1, amplitude, heap, alive, Un_p1, Un0, Un_m1, n, pc,
          wcount, trace, frames, shown, stale, rotations>>

Nodes == (0 .. Nx - 1) \X (0 .. Ny - 1)

\* the interior loops written with "ii < Nx - 2"
InteriorNodesShort ==
    {p \in Nodes : p[1] >= 1 /\ p[1] < Nx - 2 /\ p[2] >= 1 /\ p[2] < Ny - 1}

\* the nodes of the interior loops, "for jj = 1 .. Ny-2, for ii = 1 .. Nx-2"
InteriorNodes == {p \in Nodes : p[1] >= 1 /\ p[1] < Nx - 1 /\ p[2] >= 1 /\ p[2] < Ny - 1}
\* the left loop written "for jj = 0 .. Ny-1", corners included
LeftNodesWholeColumn == {p \in Nodes : p[1] = 0}

\* ii = 0, jj = 1 .. Ny-2
LeftNodes == {p \in Nodes : p[1] = 0 /\ p[2] >= 1 /\ p[2] < Ny - 1}
\* ii = Nx-1, jj = 1 .. Ny-2
RightNodes == {p \in Nodes : p[1] = Nx - 1 /\ p[2] >= 1 /\ p[2] < Ny - 1}
\* jj = Ny-1, ii = 1 .. Nx-2
TopNodes == {p \in Nodes : p[2] = Ny - 1 /\ p[1] >= 1 /\ p[1] < Nx - 1}
\* jj = 0, ii = 1 .. Nx-2
BottomNodes == {p \in Nodes : p[2] = 0 /\ p[1] >= 1 /\ p[1] < Nx - 1}
\* the four nodes of the corner statements
CornerNodes == {<<0, 0>>, <<Nx - 1, 0>>, <<Nx - 1, Ny - 1>>, <<0, Ny - 1>>}

\* the arrays used as malloc returned them, initializeArray never called
initializeArraySkipped == [p \in Nodes |-> One]

\* initializeArray: every node 0.0
initializeArray == [p \in Nodes |-> Zero]

\* the source statement with the amplitude factor left out
ForcingUnscaled(nn) == Mul(Gauss(nn), Sine(nn))

\* the source statement evaluated at the next time level, (n + 1) * dt
ForcingNextLevel(nn) == Mul(Scale(amplitude, Gauss(nn + 1)), Sine(nn + 1))

\* the right-hand side of the source statement at loop counter nn
Forcing(nn) == Mul(Scale(amplitude, Gauss(nn)), Sine(nn))

\* ----------------------------------------------------------------- passes
\* the right-hand side of the interior statement at node (ii, jj)
Stencil(u0, um1, ii, jj) ==
    LET lapx == Add(Sub(u0[<<ii + 1, jj>>], Scale(2, u0[<<ii, jj>>])), u0[<<ii - 1, jj>>])
        lapy == Add(Sub(u0[<<ii, jj + 1>>], Scale(2, u0[<<ii, jj>>])), u0[<<ii, jj - 1>>])
    IN  Sub(Add(Add(Scale(2, u0[<<ii, jj>>]), Mul(OxOx, lapx)), Mul(OyOy, lapy)),
            um1[<<ii, jj>>])

\* the double loop "Compute the general wave equation solution"
InteriorPass(up1, u0, um1) ==
    [p \in Nodes |->
        IF p \in InteriorNodes THEN Stencil(u0, um1, p[1], p[2]) ELSE up1[p]]

\* the source statement written with "+=" in place of "="
SourcePassAccumulating(up1, nn) ==
    [up1 EXCEPT ![<<xs1, ys1>>] = Add(@, Forcing(nn))]

\* "Source nodes"
SourcePass(up1, nn) == [up1 EXCEPT ![<<xs1, ys1>>] = Forcing(nn)]

\* "Left nodes"
LeftPass(up1, u0) ==
    [p \in Nodes |->
        IF p \in LeftNodes
        THEN Add(u0[<<p[1] + 1, p[2]>>],
                 Mul(Rx, Sub(up1[<<p[1] + 1, p[2]>>], u0[p])))
        ELSE up1[p]]

\* "Right nodes"
RightPass(up1, u0) ==
    [p \in Nodes |->
        IF p \in RightNodes
        THEN Add(u0[<<p[1] - 1, p[2]>>],
                 Mul(Rx, Sub(up1[<<p[1] - 1, p[2]>>], u0[p])))
        ELSE up1[p]]

\* "Top nodes"
TopPass(up1, u0) ==
    [p \in Nodes |->
        IF p \in TopNodes
        THEN Add(u0[<<p[1], p[2] - 1>>],
                 Mul(Ry, Sub(up1[<<p[1], p[2] - 1>>], u0[p])))
        ELSE up1[p]]

\* "Bottom nodes"
BottomPass(up1, u0) ==
    [p \in Nodes |->
        IF p \in BottomNodes
        THEN Add(u0[<<p[1], p[2] + 1>>],
                 Mul(Ry, Sub(up1[<<p[1], p[2] + 1>>], u0[p])))
        ELSE up1[p]]

\* the corner statements with the last one reading [1][Ny - 2] for [1][Ny - 1]
CornerPassIndexSlip(up1) ==
    LET a == [up1 EXCEPT ![<<0, 0>>] = Half(Add(up1[<<1, 0>>], up1[<<0, 1>>]))]
        b == [a EXCEPT ![<<Nx - 1, 0>>] =
                  Half(Add(a[<<Nx - 2, 0>>], a[<<Nx - 1, 1>>]))]
        d == [b EXCEPT ![<<Nx - 1, Ny - 1>>] =
                  Half(Add(b[<<Nx - 2, Ny - 1>>], b[<<Nx - 1, Ny - 2>>]))]
    IN  [d EXCEPT ![<<0, Ny - 1>>] = Half(Add(d[<<0, Ny - 2>>], d[<<1, Ny - 2>>]))]

\* "Simply average the corner values": four statements, in order
CornerPass(up1) ==
    LET a == [up1 EXCEPT ![<<0, 0>>] = Half(Add(up1[<<1, 0>>], up1[<<0, 1>>]))]
        b == [a EXCEPT ![<<Nx - 1, 0>>] =
                  Half(Add(a[<<Nx - 2, 0>>], a[<<Nx - 1, 1>>]))]
        d == [b EXCEPT ![<<Nx - 1, Ny - 1>>] =
                  Half(Add(b[<<Nx - 2, Ny - 1>>], b[<<Nx - 1, Ny - 2>>]))]
    IN  [d EXCEPT ![<<0, Ny - 1>>] = Half(Add(d[<<0, Ny - 2>>], d[<<1, Ny - 1>>]))]

\* one more store into every node of S
Stored(S) == [p \in Nodes |-> wcount[p] + (IF p \in S THEN 1 ELSE 0)]

\* the loop body with the corner statements placed before the edge loops
NextPcCornersFirst(at) ==
    CASE at = "interior" -> "source"
      [] at = "source" -> "corners"
      [] at = "corners" -> "left"
      [] at = "left" -> "right"
      [] at = "right" -> "top"
      [] at = "top" -> "bottom"
      [] at = "bottom" -> "print"
      [] at = "print" -> "swap"
      [] at = "swap" -> "incr"

\* the statement that follows each pass of the loop body
NextPc(at) ==
    CASE at = "interior" -> "source"
      [] at = "source" -> "left"
      [] at = "left" -> "right"
      [] at = "right" -> "top"
      [] at = "top" -> "bottom"
      [] at = "bottom" -> "corners"
      [] at = "corners" -> "print"
      [] at = "print" -> "swap"
      [] at = "swap" -> "incr"

\* a pass of the loop body that stores into *Un_p1
Store(at, grid, S) ==
    /\ pc = at
    /\ heap' = [heap EXCEPT ![Un_p1] = grid]
    /\ wcount' = Stored(S)
    /\ trace' = Append(trace, at)
    /\ pc' = NextPc(at)
    /\ UNCHANGED <<config, alive, Un_p1, Un0, Un_m1, n, frames, shown, stale, rotations>>

\* ---------------------------------------------------------------- actions
\* the state after lines 202-208: three arrays allocated and zeroed, n = 0
Configured(sizes) ==
    /\ Nx \in sizes
    /\ Ny \in sizes
    /\ xs1 \in 0 .. Nx - 1
    /\ ys1 \in 0 .. Ny - 1
    /\ amplitude \in {0, 1}

Started ==
    /\ heap = [b \in 1 .. 3 |-> initializeArray]
    /\ alive = {1, 2, 3}
    /\ Un_p1 = 1
    /\ Un0 = 2
    /\ Un_m1 = 3
    /\ n = 0
    /\ pc = "for"
    /\ wcount = [p \in Nodes |-> 0]
    /\ trace = <<>>
    /\ frames = 0
    /\ shown = <<>>
    /\ stale = initializeArray
    /\ rotations = 0

Init == Configured(3 .. MaxNodes) /\ Started

\* the square grids with a centre node, up to the 7 x 7 of the first-step scenario
InitSquare == Configured({3, 5, 7}) /\ Nx = Ny /\ Started

\* the loop test "n < n_stop"
LoopTest ==
    /\ pc = "for"
    /\ pc' = IF n < n_stop THEN "interior" ELSE "free"
    /\ stale' = heap[Un_p1]
    /\ UNCHANGED <<config, heap, alive, Un_p1, Un0, Un_m1, n, wcount, trace, frames,
                   shown, rotations>>

Interior ==
    Store("interior", InteriorPass(heap[Un_p1], heap[Un0], heap[Un_m1]), InteriorNodes)

Source == Store("source", SourcePass(heap[Un_p1], n), {<<xs1, ys1>>})

Left == Store("left", LeftPass(heap[Un_p1], heap[Un0]), LeftNodes)

Right == Store("right", RightPass(heap[Un_p1], heap[Un0]), RightNodes)

Top == Store("top", TopPass(heap[Un_p1], heap[Un0]), TopNodes)

Bottom == Store("bottom", BottomPass(heap[Un_p1], heap[Un0]), BottomNodes)

Corners == Store("corners", CornerPass(heap[Un_p1]), CornerNodes)

\* printWave(Un_p1, Nx, Ny): reads the field, changes none of it
PrintWave ==
    /\ pc = "print"
    /\ shown' = heap[Un_p1]
    /\ frames' = frames + 1
    /\ trace' = Append(trace, "print")
    /\ pc' = NextPc("print")
    /\ UNCHANGED <<config, heap, alive, Un_p1, Un0, Un_m1, n, wcount, stale, rotations>>

\* the rotation written without temp: "Un_m1 = Un0; Un0 = Un_p1; Un_p1 = Un_m1"
SwapReferencesNoTemp(p1, p0, m1) == [p1 |-> p0, p0 |-> p1, m1 |-> p0]

\* the pointers after "temp = Un_m1; Un_m1 = Un0; Un0 = Un_p1; Un_p1 = temp"
SwapReferences(p1, p0, m1) == [p1 |-> m1, p0 |-> p1, m1 |-> p0]

Swap ==
    /\ pc = "swap"
    /\ LET r == SwapReferences(Un_p1, Un0, Un_m1)
       IN  /\ Un_p1' = r.p1
           /\ Un0' = r.p0
           /\ Un_m1' = r.m1
    /\ rotations' = rotations + 1
    /\ trace' = Append(trace, "swap")
    /\ pc' = NextPc("swap")
    /\ UNCHANGED <<config, heap, alive, n, wcount, frames, shown, stale>>

\* "n++" of the for statement; the observations of the step start afresh
LoopIncr ==
    /\ pc = "incr"
    /\ n' = n + 1
    /\ pc' = "for"
    /\ wcount' = [p \in Nodes |-> 0]
    /\ trace' = <<>>
    /\ UNCHANGED <<config, heap, alive, Un_p1, Un0, Un_m1, frames, shown, stale, rotations>>

\* the three free2DArray calls and "return 0"
Free ==
    /\ pc = "free"
    /\ alive' = alive \ {Un_p1, Un0, Un_m1}
    /\ pc' = "done"
    /\ UNCHANGED <<config, heap, Un_p1, Un0, Un_m1, n, observed>>

Next ==
    \/ LoopTest
    \/ Interior
    \/ Source
    \/ Left
    \/ Right
    \/ Top
    \/ Bottom
    \/ Corners
    \/ PrintWave
    \/ Swap
    \/ LoopIncr
    \/ Free

Spec == Init /\ [][Next]_vars

SpecSquare == InitSquare /\ [][Next]_vars

\* ------------------------------------------------------------------ types
TypeOK ==
    /\ Un_p1 \in 1 .. 3 /\ Un0 \in 1 .. 3 /\ Un_m1 \in 1 .. 3
    /\ n \in 0 .. n_stop
    /\ \A b \in 1 .. 3 : \A p \in Nodes : heap[b][p] = Norm(heap[b][p])

\* ------------------------------------------------------ claims: helpers
source == <<xs1, ys1>>
\* the source lies strictly inside the grid
SourceInside == 0 < xs1 /\ xs1 < Nx - 1 /\ 0 < ys1 /\ ys1 < Ny - 1
\* positions of main at which the source statement of step n has run
AfterSource == {"left", "right", "top", "bottom", "corners", "print", "swap"}
\* positions of main at which every store of step n has run
FieldComplete == {"print", "swap"}

\* C1 -- Source law: with the source strictly inside the grid, from the source
\* statement of step n on the source node of the next level equals the forcing
\* at n through the edge and corner passes, in the field handed to printWave,
\* and in the current level after the rotation until the next rotation.
C1_SourceLaw ==
    SourceInside =>
        /\ pc \in AfterSource => heap[Un_p1][source] = Forcing(n)
        /\ pc \in {"swap", "incr"} => shown[source] = Forcing(n)
        /\ pc = "incr" => heap[Un0][source] = Forcing(n)
        /\ (n >= 1 /\ pc # "incr") => heap[Un0][source] = Forcing(n - 1)

\* a step in which the stencil computed, at the source node, a value other
\* than the nonzero forcing that the handed-over field holds there
C1_Witness ==
    /\ SourceInside
    /\ pc = "swap"
    /\ Forcing(n) # Zero
    /\ shown[source] = Forcing(n)
    /\ Stencil(heap[Un0], heap[Un_m1], xs1, ys1) \notin {Zero, Forcing(n)}

\* the four corner equations on the field u
CornerLaw(u) ==
    /\ u[<<0, 0>>] = Half(Add(u[<<1, 0>>], u[<<0, 1>>]))
    /\ u[<<Nx - 1, 0>>] = Half(Add(u[<<Nx - 2, 0>>], u[<<Nx - 1, 1>>]))
    /\ u[<<Nx - 1, Ny - 1>>] = Half(Add(u[<<Nx - 2, Ny - 1>>], u[<<Nx - 1, Ny - 2>>]))
    /\ u[<<0, Ny - 1>>] = Half(Add(u[<<0, Ny - 2>>], u[<<1, Ny - 1>>]))

\* C2 -- Corner law: once the corner statements of a step have run, each
\* corner of the field of that step is the mean of its two adjacent edge
\* nodes of the same field: in the next level, in the field handed to
\* printWave, and in the current level after the rotation.
C2_CornerLaw ==
    /\ pc \in FieldComplete => CornerLaw(heap[Un_p1])
    /\ pc \in {"swap", "incr"} => CornerLaw(shown)
    /\ pc = "incr" => CornerLaw(heap[Un0])
    /\ (n >= 1 /\ pc # "incr") => CornerLaw(heap[Un0])

\* a completed field whose four corners are nonzero and not all equal
C2_Witness ==
    /\ pc = "print"
    /\ \A p \in CornerNodes : heap[Un_p1][p] # Zero
    /\ heap[Un_p1][<<0, 0>>] # heap[Un_p1][<<Nx - 1, Ny - 1>>]

PointersDistinct ==
    /\ {Un_p1, Un0, Un_m1} = {1, 2, 3}
    /\ Un_p1 # Un0 /\ Un0 # Un_m1 /\ Un_p1 # Un_m1

\* C3 -- Buffer identity: the three pointers always name the three
\* allocations, pairwise distinct; no allocation is freed before the loop has
\* ended; the rotation makes the old next the new current, the old current
\* the new previous and the old previous the new next, and changes no cell;
\* no other statement changes a pointer.
C3_BufferIdentity ==
    /\ PointersDistinct
    /\ [][/\ PointersDistinct'
          /\ alive = {1, 2, 3}
          /\ alive' # alive => pc = "free"
          /\ IF pc = "swap"
             THEN /\ Un0' = Un_p1
                  /\ Un_m1' = Un0
                  /\ Un_p1' = Un_m1
                  /\ heap' = heap
             ELSE UNCHANGED <<Un_p1, Un0, Un_m1>>]_vars

\* three rotations done: every pointer is back on its first allocation, and
\* the three allocations hold three different fields
C3_Witness ==
    /\ rotations = 3
    /\ Un_p1 = 1 /\ Un0 = 2 /\ Un_m1 = 3
    /\ heap[1] # heap[2] /\ heap[2] # heap[3] /\ heap[1] # heap[3]

\* C4 -- Zero-source invariant: with amplitude 0 every node of all three
\* buffers, and of every field handed to printWave, is exactly zero.
C4_ZeroSource ==
    amplitude = 0 =>
        /\ \A b \in 1 .. 3 : \A p \in Nodes : heap[b][p] = Zero
        /\ frames > 0 => \A p \in Nodes : shown[p] = Zero

\* the 5 x 5 scenario, after three complete steps, at a step whose pulse
\* value is not zero
C4_Witness ==
    /\ amplitude = 0
    /\ Nx = 5 /\ Ny = 5
    /\ n = 3 /\ pc = "swap"
    /\ Mul(Gauss(n), Sine(n)) # Zero
    /\ \A p \in Nodes : shown[p] = Zero

\* the source at the centre of a square grid
Centred == Nx = Ny /\ Nx % 2 = 1 /\ xs1 = (Nx - 1) \div 2 /\ ys1 = xs1
Abs(i) == IF i < 0 THEN -i ELSE i
\* Chebyshev distance of node p from the source
Cheb(p) ==
    LET a == Abs(p[1] - xs1)
        b == Abs(p[2] - ys1)
    IN  IF a > b THEN a ELSE b

\* C5 as stated -- Causality: with the source at the centre of a square grid,
\* a node at Chebyshev distance d is zero in the field of every step n with
\* n < d * sqrt 2 (c*dt/dx = 1/sqrt 2), that is n*n < 2*d*d.
C5_AsStated ==
    (Centred /\ pc \in FieldComplete) =>
        \A p \in Nodes : n * n < 2 * Cheb(p) * Cheb(p) => heap[Un_p1][p] = Zero

\* C5 amended -- with the source at the centre of a square grid, a node at
\* Chebyshev distance d is zero in the field of every step n < d.
C5_Causality ==
    (Centred /\ pc \in FieldComplete) =>
        \A p \in Nodes : n < Cheb(p) => heap[Un_p1][p] = Zero

\* the 7 x 7 grid in the field of step 2: the pulse has reached the nodes
\* next to the source, and the nodes at distance 3 are zero
C5_Witness ==
    /\ Centred /\ Nx = 7 /\ amplitude = 1
    /\ pc = "print" /\ n = 2
    /\ \A p \in Nodes :
          /\ (Cheb(p) = 1 /\ (p[1] = xs1 \/ p[2] = ys1)) => heap[Un_p1][p] # Zero
          /\ Cheb(p) = 3 => heap[Un_p1][p] = Zero

\* the 7 x 7 scenario just after the source statement of step 0
Scenario7 ==
    /\ Nx = 7 /\ Ny = 7 /\ xs1 = 3 /\ ys1 = 3 /\ amplitude = 1
    /\ n = 0 /\ pc = "left"

\* C6 as stated -- First step: in the 7 x 7 scenario, after the interior pass
\* and the source statement of step 0, node (3,3) of the next level is
\* nonzero and equals the forcing at n = 0, and every other node is zero.
C6_AsStated ==
    Scenario7 =>
        /\ heap[Un_p1][<<3, 3>>] # Zero
        /\ heap[Un_p1][<<3, 3>>] = Forcing(0)
        /\ \A p \in Nodes \ {<<3, 3>>} : heap[Un_p1][p] = Zero

\* C6 amended -- in the 7 x 7 scenario, after the interior pass and the
\* source statement of step 0, node (3,3) of the next level equals the forcing
\* at n = 0, and every node of the next level, (3,3) included, is zero.
C6_FirstStep ==
    Scenario7 =>
        /\ heap[Un_p1][<<3, 3>>] = Forcing(0)
        /\ \A p \in Nodes : heap[Un_p1][p] = Zero

\* the scenario state, the source statement having stored into node (3,3)
C6_Witness ==
    /\ Scenario7
    /\ wcount[<<3, 3>>] = 2
    /\ trace = <<"interior", "source">>
    /\ Forcing(1) # Zero

\* C7 -- Configuration rejection: with the source not strictly inside the
\* grid no pass of the loop body runs, no node is stored into and no field is
\* handed to printWave.
C7_ConfigRejected ==
    ~SourceInside =>
        /\ trace = <<>>
        /\ n = 0
        /\ frames = 0
        /\ \A p \in Nodes : wcount[p] = 0
        /\ pc \notin {"source", "left", "right", "top", "bottom", "corners", "print",
                      "swap", "incr"}

Pipeline ==
    <<"interior", "source", "left", "right", "top", "bottom", "corners", "print", "swap">>

\* node p lies on the rim of the grid / is one of its four corners
OnRim(p) == p[1] = 0 \/ p[1] = Nx - 1 \/ p[2] = 0 \/ p[2] = Ny - 1
IsCorner(p) == (p[1] = 0 \/ p[1] = Nx - 1) /\ (p[2] = 0 \/ p[2] = Ny - 1)

\* C8 -- Pass ordering: the passes completed in a step are always an initial
\* part of interior, source, left, right, top, bottom, corners, print, swap;
\* an edge loop has stored only after the interior loops and the source
\* statement, a corner statement only after the four edge loops; one field is
\* handed to printWave per step, after the corners and before the rotation;
\* n counts the steps whose rotation is done.
C8_PassOrdering ==
    /\ Len(trace) <= Len(Pipeline)
    /\ trace = SubSeq(Pipeline, 1, Len(trace))
    /\ (\E p \in Nodes : OnRim(p) /\ ~IsCorner(p) /\ p # source /\ wcount[p] > 0)
          => Len(trace) >= 3
    /\ (\E p \in Nodes : IsCorner(p) /\ p # source /\ wcount[p] > 0)
          => Len(trace) >= 7
    /\ frames = n + (IF Len(trace) >= 8 THEN 1 ELSE 0)
    /\ rotations = n + (IF Len(trace) = 9 THEN 1 ELSE 0)
    /\ pc = "for" => (trace = <<>> /\ frames = n /\ rotations = n)
    /\ pc = "incr" => trace = Pipeline

\* the second step complete, the counter not yet advanced
C8_Witness ==
    /\ pc = "incr" /\ n = 1
    /\ trace = Pipeline
    /\ frames = 2 /\ rotations = 2

EdgeNames == {"left", "right", "top", "bottom"}
\* the 24 orders of the four edge loops
EdgeOrders == {o \in [1 .. 4 -> EdgeNames] : \A i, j \in 1 .. 4 : i # j => o[i] # o[j]}
CodeOrder == <<"left", "right", "top", "bottom">>

EdgePass(e, up1, u0) ==
    CASE e = "left" -> LeftPass(up1, u0)
      [] e = "right" -> RightPass(up1, u0)
      [] e = "top" -> TopPass(up1, u0)
      [] e = "bottom" -> BottomPass(up1, u0)

\* the next level after the edge loops o[i], ..., o[4], run in that order
RECURSIVE ApplyEdges(_, _, _, _)
ApplyEdges(o, i, up1, u0) ==
    IF i > 4 THEN up1 ELSE ApplyEdges(o, i + 1, EdgePass(o[i], up1, u0), u0)

\* the non-corner rim nodes of edge e, and the inward neighbour of such a node
RimOf(e) ==
    {p \in Nodes :
        /\ ~IsCorner(p)
        /\ CASE e = "left" -> p[1] = 0
             [] e = "right" -> p[1] = Nx - 1
             [] e = "top" -> p[2] = Ny - 1
             [] e = "bottom" -> p[2] = 0}
Inward(p) ==
    CASE p[1] = 0 -> <<1, p[2]>>
      [] p[1] = Nx - 1 -> <<Nx - 2, p[2]>>
      [] p[2] = 0 -> <<p[1], 1>>
      [] OTHER -> <<p[1], Ny - 2>>

\* the field u with every node outside keep changed
Perturbed(u, keep) == [p \in Nodes |-> IF p \in keep THEN u[p] ELSE Add(u[p], One)]

\* C9 -- Edge independence: where the edge loops are about to run, every one
\* of the 24 orders of the four loops gives the next level that the order of
\* the source gives; and the values an edge loop stores do not change when
\* the next level is changed at every node but the inward neighbours of that
\* edge (nodes off the rim, stored by the interior loops or the source
\* statement) and the current level at every node but that edge's own nodes
\* and their inward neighbours.
C9_EdgeIndependence ==
    pc = "left" =>
        LET up1 == heap[Un_p1]
            u0 == heap[Un0]
            ref == ApplyEdges(CodeOrder, 1, up1, u0)
        IN  /\ \A o \in EdgeOrders : ApplyEdges(o, 1, up1, u0) = ref
            /\ \A e \in EdgeNames :
                  LET rim == RimOf(e)
                      inw == {Inward(p) : p \in rim}
                      alt == EdgePass(e, Perturbed(up1, inw), Perturbed(u0, rim \cup inw))
                  IN  /\ \A q \in inw : ~OnRim(q) /\ wcount[q] >= 1
                      /\ \A p \in rim : alt[p] = EdgePass(e, up1, u0)[p]
                      /\ \A p \in Nodes \ rim : EdgePass(e, up1, u0)[p] = up1[p]

\* the edge loops about to store new nonzero values on all four edges
C9_Witness ==
    /\ pc = "left"
    /\ LET ref == ApplyEdges(CodeOrder, 1, heap[Un_p1], heap[Un0])
       IN  \A e \in EdgeNames :
              \E p \in RimOf(e) : ref[p] # Zero /\ ref[p] # heap[Un_p1][p]

\* the field the loop body leaves in *Un_p1, from the three levels
StepField(up1, u0, um1, nn) ==
    CornerPass(ApplyEdges(CodeOrder, 1, SourcePass(InteriorPass(up1, u0, um1), nn), u0))

\* the expected number of stores into node p once the passes up to and
\* including the interior loops / source statement / edge loops / corner
\* statements have run
StoresAfter(stage, p) ==
    (IF ~OnRim(p) THEN 1 ELSE 0)
    + (IF stage >= 2 /\ p = source THEN 1 ELSE 0)
    + (IF stage >= 3 /\ OnRim(p) /\ ~IsCorner(p) THEN 1 ELSE 0)
    + (IF stage >= 4 /\ IsCorner(p) THEN 1 ELSE 0)

\* C10 -- Full overwrite: with the source strictly inside the grid, the
\* interior loops store once into every node off the rim, the source statement
\* once more into the source node, the edge loops once into every non-corner
\* rim node and the corner statements once into every corner, so that before
\* printWave every node has been stored into (the source node twice, every
\* other node once); the field handed to printWave and the current level after
\* the rotation do not depend on what the buffer held when the step began.
C10_FullOverwrite ==
    SourceInside =>
        /\ pc = "source" => \A p \in Nodes : wcount[p] = StoresAfter(1, p)
        /\ pc = "left" => \A p \in Nodes : wcount[p] = StoresAfter(2, p)
        /\ pc = "corners" => \A p \in Nodes : wcount[p] = StoresAfter(3, p)
        /\ pc \in {"print", "swap", "incr"} =>
              \A p \in Nodes : wcount[p] = StoresAfter(4, p)
        /\ pc = "print" =>
              heap[Un_p1] = StepField(Perturbed(stale, {}), heap[Un0], heap[Un_m1], n)
        /\ pc = "swap" => shown = heap[Un_p1]
        /\ pc = "incr" => shown = heap[Un0]

\* a field handed to printWave from a buffer that began the step holding
\* nonzero values, on the rim and off it, all since replaced
C10_Witness ==
    /\ SourceInside
    /\ pc = "swap"
    /\ \A p \in Nodes : wcount[p] >= 1
    /\ \E p \in Nodes : OnRim(p) /\ stale[p] # Zero /\ shown[p] # stale[p]
    /\ \E p \in Nodes : ~OnRim(p) /\ p # source /\ stale[p] # Zero /\ shown[p] # stale[p]

====
